---- MODULE Spec2Model ----
(***************************************************************************)
(* Model of mlrun/api/initial_data.py: the start-up orchestrator init_data *)
(* with its version resolution, the three version-1 repair passes, the     *)
(* version marker and the default marketplace source.                      *)
(*                                                                         *)
(* The relational store is the state: the data-version marker, the         *)
(* projects, the artifacts, the artifact tags and the marketplace sources. *)
(* One action models one function of the file; pc is the position of the   *)
(* single orchestrator inside init_data.                                   *)
(***************************************************************************)
EXTENDS Integers, Sequences, FiniteSets, TLC

VARIABLES
    config,        \* mlrun.config.config: the switches init_data reads
    from_scratch,  \* the argument of init_data
    marker,        \* data_versions table: "no_table", "no_row" or the stored text
    projects,      \* project name -> [desired_state, state]
    artifacts,     \* artifact record id -> [project, key, updated, struct]
    tags,          \* set of tag rows [name, obj_id]
    sources,       \* marketplace source rows [name, index, origin], in order
    pc,            \* position of the orchestrator
    run,           \* number of the current invocation of init_data
    trace,         \* functions entered so far in the current invocation, in order
    error,         \* the exception that ended the invocation, or NoError
    resolved,      \* inputs and outcome of the last _resolve_current_data_version
    alembic,       \* what AlembicUtil was constructed and called with
    pre,           \* the store as it was when the last repair pass started
    skipped,       \* artifact ids whose preview repair raised and was swallowed
    env_failed,    \* whether the store raised an injected operational failure
    stored,        \* rows the repair passes of this invocation wrote back
    first          \* how the first invocation ended: its store, position, trace

vars == <<config, from_scratch, marker, projects, artifacts, tags, sources, pc,
          run, trace, error, resolved, alembic, pre, skipped, env_failed, stored,
          first>>

(***************************************************************************)
(* Program constants                                                       *)
(***************************************************************************)
data_version_prior_to_table_addition == 1
latest_data_version == 1

\* mlrun.artifacts.dataset.max_preview_columns, scaled down
max_preview_columns == 2

\* mlrun.api.schemas.ProjectState.online
online == "online"

\* config.marketplace.default_source.name
default_source_name == "mlrun_functions"

\* mlrun.api.schemas.marketplace.last_source_index
last_source_index == -1

\* datetime.datetime.min, and an `updated` column that holds None
MinTime == 0
NoTime == -1

(***************************************************************************)
(* Bounds of the model                                                     *)
(***************************************************************************)
MaxRuns == 2        \* invocations of init_data in one behaviour
MaxVersion == 2     \* stored data versions range over 0..MaxVersion
MaxExtra == 1       \* header entries beyond max_preview_columns
MaxTime == 1        \* `updated` timestamps range over MinTime..MaxTime

(***************************************************************************)
(* Values                                                                  *)
(***************************************************************************)
NullState == "null"                 \* an unset project state (None)
NoError == "none"
Modes == {"enabled", "disabled"}

\* The marker is stored as text; int() and str() convert.
Digits == <<"0", "1", "2", "3", "4", "5", "6", "7", "8", "9">>
str(n) == Digits[n + 1]
int(s) == CHOOSE n \in 0..9 : Digits[n + 1] = s

Store == [marker |-> marker, projects |-> projects, artifacts |-> artifacts,
          tags |-> tags, sources |-> sources]

(***************************************************************************)
(* VersionStore primitives (mlrun.api.db.sqldb.db.SQLDB)                   *)
(***************************************************************************)
\* db.get_current_data_version(db_session): the stored text, or the failure
\* it raises.  read_fail is an operational failure of the store itself.
get_current_data_version(m, read_fail) ==
    IF read_fail THEN [kind |-> "operational", text |-> ""]
    ELSE IF m = "no_table" THEN [kind |-> "no such table", text |-> ""]
    ELSE IF m = "no_row" THEN [kind |-> "not_found", text |-> ""]
    ELSE [kind |-> "value", text |-> m]

\* db.create_data_version(db_session, version): upsert of the marker row
create_data_version(version) == str(version)

\* db.list_projects(db_session): the project rows, or an operational failure
list_projects(projs, list_fail) ==
    IF list_fail THEN [raised |-> TRUE, projects |-> {}]
    ELSE [raised |-> FALSE, projects |-> DOMAIN projs]

\* AlembicUtil.init_alembic / init_db: the physical schema is brought to the
\* latest revision, which creates the data_versions table when it is missing.
apply_latest_schema(m) == IF m = "no_table" THEN "no_row" ELSE m

(***************************************************************************)
(* _resolve_current_data_version                                           *)
(***************************************************************************)
Returned(v) == [raised |-> FALSE, version |-> v, exc |-> NoError]
Raised(e) == [raised |-> TRUE, version |-> -1, exc |-> e]

\* Mutants: the failure reason inspected before the project count; every
\* failure of the marker read swallowed.
ResolveReasonFirst(m, projs, read_fail, list_fail) ==
    LET r == get_current_data_version(m, read_fail)
        listing == list_projects(projs, list_fail)
    IN  IF r.kind = "value" THEN Returned(int(r.text))
        ELSE IF r.kind = "operational" THEN Raised(r.kind)
        ELSE IF listing.raised \/ listing.projects = {}
             THEN Returned(latest_data_version)
        ELSE Returned(data_version_prior_to_table_addition)

ResolveSwallowsAll(m, projs, read_fail, list_fail) ==
    LET r == get_current_data_version(m, read_fail)
        listing == list_projects(projs, list_fail)
    IN  IF r.kind = "value" THEN Returned(int(r.text))
        ELSE IF listing.raised \/ listing.projects = {}
             THEN Returned(latest_data_version)
        ELSE Returned(data_version_prior_to_table_addition)

\* Mutant: a store without marker is taken to be one version behind the
\* pre-tracking version, that is, below every repair.
ResolveBelowRepairs(m, projs, read_fail, list_fail) ==
    LET r == get_current_data_version(m, read_fail)
        listing == list_projects(projs, list_fail)
    IN  IF r.kind = "value" THEN Returned(int(r.text))
        ELSE IF listing.raised \/ listing.projects = {}
             THEN Returned(latest_data_version)
        ELSE IF r.kind \in {"no such table", "not_found"}
             THEN Returned(data_version_prior_to_table_addition - 1)
        ELSE Raised(r.kind)

_resolve_current_data_version(m, projs, read_fail, list_fail) ==
    LET r == get_current_data_version(m, read_fail)
        listing == list_projects(projs, list_fail)
    IN  IF r.kind = "value" THEN Returned(int(r.text))
        \* except (OperationalError, MLRunNotFoundError) as exc
        ELSE IF listing.raised \/ listing.projects = {}
             THEN Returned(latest_data_version)
        ELSE IF r.kind = "no such table"
             THEN Returned(data_version_prior_to_table_addition)
        ELSE IF r.kind = "not_found"
             THEN Returned(data_version_prior_to_table_addition)
        ELSE Raised(r.kind)

\* What the resolver saw and what it answered, kept for inspection.
Resolution(m, projs, read_fail, list_fail) ==
    [read |-> get_current_data_version(m, read_fail).kind,
     text |-> get_current_data_version(m, read_fail).text,
     list_raised |-> (get_current_data_version(m, read_fail).kind # "value"
                      /\ list_fail),
     n_projects |-> Cardinality(DOMAIN projs),
     out |-> _resolve_current_data_version(m, projs, read_fail, list_fail)]

NoResolution ==
    [read |-> "none", text |-> "", list_raised |-> FALSE, n_projects |-> 0,
     out |-> Returned(-1)]

(***************************************************************************)
(* _enrich_project_state                                                   *)
(***************************************************************************)
ProjectNames == {"p1", "p2"}
ProjectStates == {NullState, online, "archived"}

\* db.list_projects returns the projects in this order
ProjectOrder == <<"p1", "p2">>
Position(name) == CHOOSE i \in 1..Len(ProjectOrder) : ProjectOrder[i] = name

\* Mutant: an unset state filled with the online value, not the desired state.
EnrichStateOnline(p) ==
    [desired_state |-> IF p.desired_state = NullState THEN online
                       ELSE p.desired_state,
     state |-> IF p.state = NullState THEN online ELSE p.state]

\* lines 281-286: the two fields of one project after enrichment
EnrichProject(p) ==
    LET desired == IF p.desired_state = NullState THEN online
                   ELSE p.desired_state
    IN  [desired_state |-> desired,
         state |-> IF p.state = NullState THEN desired ELSE p.state]

\* Mutant: every project counts as changed.
AlwaysChanged(p) == p.desired_state = p.desired_state

\* lines 280-287: the `changed` flag of one project
Changed(p) == p.desired_state = NullState \/ p.state = NullState

(***************************************************************************)
(* _find_last_updated_artifact and _fix_artifact_tags_duplications         *)
(***************************************************************************)
NoArtifact == 0

RECURSIVE LastUpdatedLoop(_, _, _, _)
\* lines 240-246: the loop, over the record ids of the given artifacts
LastUpdatedLoop(arts, ids, last, last_time) ==
    IF ids = <<>> THEN last
    ELSE IF arts[Head(ids)].updated > last_time
         THEN LastUpdatedLoop(arts, Tail(ids), Head(ids), arts[Head(ids)].updated)
         ELSE LastUpdatedLoop(arts, Tail(ids), last, last_time)

\* The id of the artifact the function returns; comparing None with a
\* datetime raises TypeError.
_find_last_updated_artifact(arts, ids) ==
    IF ids = <<>> THEN [raised |-> TRUE, exc |-> "RuntimeError", id |-> NoArtifact]
    ELSE IF \E i \in 1..Len(ids) : arts[ids[i]].updated = NoTime
         THEN [raised |-> TRUE, exc |-> "TypeError", id |-> NoArtifact]
    ELSE LET last == LastUpdatedLoop(arts, ids, NoArtifact, MinTime)
         IN  [raised |-> FALSE, exc |-> NoError,
              id |-> IF last = NoArtifact THEN ids[1] ELSE last]

\* The orders in which the tag query can return the rows of a set of tags
Orders(T) ==
    {s \in [1..Cardinality(T) -> T] :
        \A i, j \in 1..Cardinality(T) : i # j => s[i] # s[j]}

Range(s) == {s[i] : i \in DOMAIN s}

\* lines 199-205: the tags whose artifact has the given key
ArtifactKeyTags(arts, order, key) ==
    LET HasKey(t) == arts[t.obj_id].key = key
    IN  SelectSeq(order, HasKey)

\* lines 206-208: tag_name_tags_map[tag_name]
TagNameTags(key_tags, name) ==
    LET HasName(t) == t.name = name
    IN  SelectSeq(key_tags, HasName)

TagsArtifacts(_tags) == [i \in 1..Len(_tags) |-> _tags[i].obj_id]

\* lines 209-216 for one tag name: the outcome of the tie-break and the tags
\* marked for deletion
GroupOutcome(arts, _tags) ==
    IF Len(_tags) = 1
    THEN [raised |-> FALSE, exc |-> NoError, delete |-> {}]
    ELSE LET last == _find_last_updated_artifact(arts, TagsArtifacts(_tags))
         IN  [raised |-> last.raised, exc |-> last.exc,
              delete |-> IF last.raised THEN {}
                         ELSE {t \in Range(_tags) : t.obj_id # last.id}]

\* lines 194-216: every (project, artifact key, tag name) the loops visit
Visits(arts, order) ==
    LET projs == {arts[a].project : a \in DOMAIN arts}
        Keys(p) == {arts[a].key : a \in {b \in DOMAIN arts : arts[b].project = p}}
    IN  UNION {
          UNION {
            LET key_tags == ArtifactKeyTags(arts, order, k)
            IN  {GroupOutcome(arts, TagNameTags(key_tags, n)) :
                    n \in {t.name : t \in Range(key_tags)}}
            : k \in Keys(p)}
          : p \in projs}

\* Mutant: the winner's tag is deleted with the others.
TagsToDeleteAll(arts, tag_rows, order) ==
    [raised |-> FALSE, exc |-> NoError, delete |-> tag_rows]

\* Mutant: the tags of each group are deleted as soon as the group has been
\* worked out, so those of the groups before a failing one are gone.
TagsToDeleteAsYouGo(arts, tag_rows, order) ==
    IF DOMAIN arts # {} /\ \E t \in tag_rows : t.obj_id \notin DOMAIN arts
    THEN [raised |-> TRUE, exc |-> "KeyError", delete |-> {}]
    ELSE LET visits == Visits(arts, order)
         IN  [raised |-> \E v \in visits : v.raised,
              exc |-> IF \E v \in visits : v.raised
                      THEN (CHOOSE v \in visits : v.raised).exc
                      ELSE NoError,
              delete |-> UNION {v.delete : v \in visits}]

\* lines 187-216: tags_to_delete, or the exception the compute stage raises.
\* An orphan tag makes artifact_record_id_map[tag.obj_id] raise KeyError as
\* soon as one (project, key) is visited.
TagsToDelete(arts, tag_rows, order) ==
    IF DOMAIN arts # {} /\ \E t \in tag_rows : t.obj_id \notin DOMAIN arts
    THEN [raised |-> TRUE, exc |-> "KeyError", delete |-> {}]
    ELSE LET visits == Visits(arts, order)
         IN  IF \E v \in visits : v.raised
             THEN [raised |-> TRUE,
                   exc |-> (CHOOSE v \in visits : v.raised).exc,
                   delete |-> {}]
             ELSE [raised |-> FALSE, exc |-> NoError,
                   delete |-> UNION {v.delete : v \in visits}]

(***************************************************************************)
(* _fix_datasets_large_previews                                            *)
(***************************************************************************)
DatasetKind == "dataset"            \* mlrun.artifacts.DatasetArtifact.kind

Take(s, n) == SubSeq(s, 1, IF Len(s) < n THEN Len(s) ELSE n)
Drop(s, n) == SubSeq(s, n + 1, Len(s))

\* lines 111-116: the artifact is a dataset with too many header entries
NeedsFix(struct) ==
    /\ struct.kind = DatasetKind
    /\ Len(struct.header) > max_preview_columns

\* Mutant: the header is cut, stats and schema are left as they were.
FixHeaderOnly(struct) ==
    [struct EXCEPT !.header = Take(struct.header, max_preview_columns)]

\* Mutant: only the stats and the fields of the columns that stay in the
\* header are kept.
FixKeepHeaderColumns(struct) ==
    LET kept == Range(Take(struct.header, max_preview_columns))
        Kept(name) == name \in kept
    IN  [struct EXCEPT
            !.preview = [i \in DOMAIN struct.preview |->
                            Take(struct.preview[i], max_preview_columns)],
            !.stats = struct.stats \cap kept,
            !.fields = SelectSeq(struct.fields, Kept),
            !.header = Take(struct.header, max_preview_columns)]

\* lines 121-163: the rewritten payload
FixStruct(struct) ==
    LET columns_to_remove == Range(Drop(struct.header, max_preview_columns))
        Kept(name) == name \notin columns_to_remove
    IN  [struct EXCEPT
            !.preview = [i \in DOMAIN struct.preview |->
                            Take(struct.preview[i], max_preview_columns)],
            !.stats = struct.stats \ columns_to_remove,
            !.fields = SelectSeq(struct.fields, Kept),
            !.header = Take(struct.header, max_preview_columns)]

(***************************************************************************)
(* Stores and configurations                                               *)
(***************************************************************************)
Configs ==
    [database_migration_mode : Modes, data_migrations_mode : Modes,
     database_backup_mode : Modes, default_source_create : BOOLEAN]
AllEnabled ==
    [database_migration_mode |-> "enabled", data_migrations_mode |-> "enabled",
     database_backup_mode |-> "enabled", default_source_create |-> TRUE]

MarkerStates == {"no_table", "no_row"} \cup {str(v) : v \in 0..MaxVersion}

NoProjects == [n \in {} |-> [desired_state |-> NullState, state |-> NullState]]
AllProjects ==
    UNION {[S -> [desired_state : ProjectStates, state : ProjectStates]] :
              S \in SUBSET ProjectNames}

PlainStruct ==
    [kind |-> "model", header |-> <<>>, preview |-> <<>>, stats |-> {},
     fields |-> <<>>]
WideStruct ==
    [kind |-> DatasetKind, header |-> <<"a", "b", "c">>,
     preview |-> <<<<1, 2, 3>>, <<1>>>>, stats |-> {"a", "c"},
     fields |-> <<"a", "b", "c">>]
Artifact(p, k, u, s) == [project |-> p, key |-> k, updated |-> u, struct |-> s]
Tag(n, a) == [name |-> n, obj_id |-> a]
NoArtifacts == [a \in {} |-> Artifact("p1", "k1", MinTime, PlainStruct)]
\* A record id that no artifact has
OrphanId == CHOOSE i \in 1..9 : i \notin {1, 2, 3}

\* The artifacts and tags of the orchestrator's runs: an empty store, a
\* duplicated tag over a wide dataset, an orphan tag.
OrchArtifacts ==
    { [artifacts |-> NoArtifacts, tags |-> {}],
      [artifacts |-> (1 :> Artifact("p1", "k1", MinTime, WideStruct)
                      @@ 2 :> Artifact("p1", "k1", MaxTime, PlainStruct)),
       tags |-> {Tag("latest", 1), Tag("latest", 2)}],
      [artifacts |-> (1 :> Artifact("p1", "k1", MinTime, WideStruct)),
       tags |-> {Tag("latest", 1), Tag("latest", OrphanId)}] }
OrchProjects ==
    { NoProjects,
      ("p1" :> [desired_state |-> NullState, state |-> NullState]),
      ("p1" :> [desired_state |-> "archived", state |-> NullState]
       @@ "p2" :> [desired_state |-> NullState, state |-> "archived"]) }

ExistingSource ==
    [name |-> default_source_name, index |-> last_source_index, origin |-> "existing"]
DefaultSource ==
    [name |-> default_source_name, index |-> last_source_index, origin |-> "default"]

NoAlembic == [called |-> FALSE, data_version_is_latest |-> FALSE, use_backups |-> FALSE]
Ended == {"done", "failed"}

\* store_project and _store_artifact have written no row yet
NothingStored == [projects |-> {}, artifacts |-> {}]

\* Everything but the store and the configuration, at the start of a run
Fresh ==
    /\ pc = "schema"
    /\ run = 1
    /\ trace = <<>>
    /\ error = NoError
    /\ resolved = NoResolution
    /\ alembic = NoAlembic
    /\ skipped = {}
    /\ env_failed = FALSE
    /\ stored = NothingStored

\* How the first run ended is remembered.
Outcome == [store |-> Store, pc |-> pc, trace |-> trace]
Remember == first' = IF run = 1 /\ pc' \in Ended THEN Outcome' ELSE first

Init ==
    /\ config \in Configs
    /\ from_scratch \in BOOLEAN
    /\ marker \in MarkerStates
    /\ projects \in OrchProjects
    /\ \E s \in OrchArtifacts : artifacts = s.artifacts /\ tags = s.tags
    /\ sources \in {<<>>, <<ExistingSource>>}
    /\ Fresh
    /\ pre = Store
    /\ first = Outcome

(***************************************************************************)
(* init_data, stage by stage                                               *)
(***************************************************************************)
\* lines 48-58 and 61-70: the version is resolved for AlembicUtil, then the
\* schema is applied
_perform_schema_migrations ==
    /\ pc = "schema"
    /\ \E read_fail, list_fail \in BOOLEAN :
         LET res == Resolution(marker, projects, read_fail, list_fail)
         IN  /\ resolved' = res
             /\ env_failed' = (env_failed \/ read_fail \/ res.list_raised)
             /\ IF res.out.raised
                THEN /\ trace' = Append(trace, "_is_latest_data_version")
                     /\ error' = res.out.exc
                     /\ UNCHANGED <<marker, alembic>>
                     /\ pc' = "failed"
                ELSE /\ trace' = trace \o <<"_is_latest_data_version", "init_alembic">>
                     /\ alembic' =
                          [called |-> TRUE,
                           data_version_is_latest |->
                              (res.out.version = latest_data_version),
                           use_backups |-> (config.database_backup_mode = "enabled")]
                     /\ marker' = apply_latest_schema(marker)
                     /\ error' = error
                     /\ pc' = "transfer"
    /\ UNCHANGED <<config, from_scratch, projects, artifacts, tags, sources, run,
                   pre, skipped,
                   stored>>
    /\ Remember

\* lines 73-76
_perform_database_migration ==
    /\ pc = "transfer"
    /\ trace' = IF ~from_scratch /\ config.database_migration_mode = "enabled"
                THEN Append(trace, "transfer")
                ELSE trace
    /\ UNCHANGED <<config, from_scratch, marker, projects, artifacts, tags, sources,
                   run, error, resolved, alembic, pre, skipped, env_failed,
                   stored>>
    /\ pc' = "init_db"
    /\ Remember

\* line 33
init_db ==
    /\ pc = "init_db"
    /\ marker' = apply_latest_schema(marker)
    /\ trace' = Append(trace, "init_db")
    /\ UNCHANGED <<config, from_scratch, projects, artifacts, tags, sources,
                   run, error, resolved, alembic, pre, skipped, env_failed,
                   stored>>
    /\ pc' = "seed_source"
    /\ Remember

\* Mutant: the row is added without looking for an existing one.
AddSourceUnconditionally ==
    /\ pc = "seed_source"
    /\ sources' = IF config.default_source_create
                  THEN Append(sources, DefaultSource)
                  ELSE sources
    /\ trace' = Append(trace, "_add_default_marketplace_source_if_needed")
    /\ UNCHANGED <<config, from_scratch, marker, projects, artifacts, tags,
                   run, error, resolved, alembic, pre, skipped, env_failed,
                   stored>>
    /\ pc' = "seed_version"
    /\ Remember

\* lines 295-321
_add_default_marketplace_source_if_needed ==
    /\ pc = "seed_source"
    /\ LET HasDefaultName(s) == s.name = default_source_name
           hub_marketplace_source == SelectSeq(sources, HasDefaultName)
       IN  sources' = IF hub_marketplace_source = <<>> /\ config.default_source_create
                      THEN Append(sources, DefaultSource)
                      ELSE sources
    /\ trace' = Append(trace, "_add_default_marketplace_source_if_needed")
    /\ UNCHANGED <<config, from_scratch, marker, projects, artifacts, tags,
                   run, error, resolved, alembic, pre, skipped, env_failed,
                   stored>>
    /\ pc' = "seed_version"
    /\ Remember

\* lines 324-332
_add_data_version ==
    /\ pc = "seed_version"
    /\ IF marker = "no_table"
       THEN /\ trace' = Append(trace, "_add_data_version")
            /\ error' = "no such table"
            /\ UNCHANGED <<marker, resolved, env_failed>>
            /\ pc' = "failed"
       ELSE IF marker # "no_row"
       THEN /\ trace' = Append(trace, "_add_data_version")
            /\ UNCHANGED <<marker, resolved, env_failed, error>>
            /\ pc' = "data_migrations"
       ELSE \E read_fail, list_fail \in BOOLEAN :
              LET res == Resolution(marker, projects, read_fail, list_fail)
              IN  /\ resolved' = res
                  /\ env_failed' = (env_failed \/ read_fail \/ res.list_raised)
                  /\ trace' = trace \o <<"_add_data_version",
                                         "_resolve_current_data_version">>
                  /\ IF res.out.raised
                     THEN /\ error' = res.out.exc
                          /\ marker' = marker
                          /\ pc' = "failed"
                     ELSE /\ error' = error
                          /\ marker' = create_data_version(res.out.version)
                          /\ pc' = "data_migrations"
    /\ UNCHANGED <<config, from_scratch, projects, artifacts, tags, sources, run,
                   alembic, pre, skipped,
                   stored>>
    /\ Remember

\* Mutant: the marker is advanced before the repair passes run.
MarkFirst ==
    /\ pc = "data_migrations"
    /\ trace' = IF config.data_migrations_mode = "enabled"
                   /\ marker \notin {"no_table", "no_row"}
                THEN trace \o <<"_perform_data_migrations", "create_data_version">>
                ELSE Append(trace, "_perform_data_migrations")
    /\ IF config.data_migrations_mode = "enabled" /\ marker \in {"no_table", "no_row"}
       THEN /\ error' = "not_found"
            /\ pc' = "failed"
            /\ marker' = marker
       ELSE /\ error' = error
            /\ marker' = IF config.data_migrations_mode = "enabled"
                         THEN create_data_version(latest_data_version)
                         ELSE marker
            /\ pc' = IF config.data_migrations_mode # "enabled" THEN "done"
                     ELSE IF int(marker) = latest_data_version THEN "done"
                     ELSE IF int(marker) < 1 THEN "enrich"
                     ELSE "write_version"
    /\ UNCHANGED <<config, from_scratch, projects, artifacts, tags, sources,
                   run, resolved, alembic, pre, skipped, env_failed,
                   stored>>
    /\ Remember

\* Mutant: the repair passes run for every version that is not the latest.
RepairWheneverStale ==
    /\ pc = "data_migrations"
    /\ trace' = Append(trace, "_perform_data_migrations")
    /\ IF config.data_migrations_mode = "enabled" /\ marker \in {"no_table", "no_row"}
       THEN /\ error' = "not_found"
            /\ pc' = "failed"
       ELSE /\ error' = error
            /\ pc' = IF config.data_migrations_mode # "enabled" THEN "done"
                     ELSE IF int(marker) = latest_data_version THEN "done"
                     ELSE "enrich"
    /\ UNCHANGED <<config, from_scratch, marker, projects, artifacts, tags, sources,
                   run, resolved, alembic, pre, skipped, env_failed,
                   stored>>
    /\ Remember

\* Mutant: the data-migration switch is not consulted.
IgnoreDataMigrationsMode ==
    /\ pc = "data_migrations"
    /\ trace' = Append(trace, "_perform_data_migrations")
    /\ IF marker \in {"no_table", "no_row"}
       THEN /\ error' = "not_found"
            /\ pc' = "failed"
       ELSE /\ error' = error
            /\ pc' = IF int(marker) = latest_data_version THEN "done"
                     ELSE IF int(marker) < 1 THEN "enrich"
                     ELSE "write_version"
    /\ UNCHANGED <<config, from_scratch, marker, projects, artifacts, tags, sources,
                   run, resolved, alembic, pre, skipped, env_failed,
                   stored>>
    /\ Remember

\* lines 79-91: the switch, the marker read and the two comparisons
_perform_data_migrations ==
    /\ pc = "data_migrations"
    /\ trace' = Append(trace, "_perform_data_migrations")
    /\ IF config.data_migrations_mode = "enabled" /\ marker \in {"no_table", "no_row"}
       THEN /\ error' = "not_found"
            /\ pc' = "failed"
       ELSE /\ error' = error
            /\ pc' = IF config.data_migrations_mode # "enabled" THEN "done"
                     ELSE IF int(marker) = latest_data_version THEN "done"
                     ELSE IF int(marker) < 1 THEN "enrich"
                     ELSE "write_version"
    /\ UNCHANGED <<config, from_scratch, marker, projects, artifacts, tags, sources,
                   run, resolved, alembic, pre, skipped, env_failed,
                   stored>>
    /\ Remember

\* lines 274-292; store_project may raise at a project that changed, and the
\* projects stored before it stay stored
_enrich_project_state ==
    /\ pc = "enrich"
    /\ pre' = Store
    /\ trace' = Append(trace, "_enrich_project_state")
    /\ \E fail_at \in {n \in DOMAIN projects : Changed(projects[n])} \cup {"none"} :
         /\ projects' =
              [n \in DOMAIN projects |->
                 IF Changed(projects[n])
                    /\ (fail_at = "none" \/ Position(n) < Position(fail_at))
                 THEN EnrichProject(projects[n])
                 ELSE projects[n]]
         /\ stored' =
              [stored EXCEPT !.projects =
                 {n \in DOMAIN projects :
                    /\ Changed(projects[n])
                    /\ (fail_at = "none" \/ Position(n) < Position(fail_at))}]
         /\ error' = IF fail_at = "none" THEN error ELSE "store_project"
         /\ env_failed' = (env_failed \/ fail_at # "none")
         /\ pc' = IF fail_at = "none" THEN "dedup" ELSE "failed"
    /\ UNCHANGED <<config, from_scratch, marker, artifacts, tags, sources, run,
                   resolved, alembic, skipped>>
    /\ Remember

\* lines 182-228; the tag query returns the rows in some order
_fix_artifact_tags_duplications ==
    /\ pc = "dedup"
    /\ pre' = Store
    /\ trace' = Append(trace, "_fix_artifact_tags_duplications")
    /\ \E order \in Orders(tags) :
         LET computed == TagsToDelete(artifacts, tags, order)
         IN  /\ tags' = tags \ computed.delete
             /\ error' = IF computed.raised THEN computed.exc ELSE error
             /\ pc' = IF computed.raised THEN "failed" ELSE "previews"
    /\ UNCHANGED <<config, from_scratch, marker, projects, artifacts, sources, run,
                   resolved, alembic, skipped, env_failed,
                   stored>>
    /\ Remember

\* Mutant: the failure of one artifact is not caught; it ends the pass.
PreviewsFailFast ==
    /\ pc = "previews"
    /\ pre' = Store
    /\ trace' = Append(trace, "_fix_datasets_large_previews")
    /\ \E failing \in SUBSET {a \in DOMAIN artifacts : NeedsFix(artifacts[a].struct)} :
         LET Reached(a) == \A f \in failing : a < f
         IN  /\ artifacts' =
                  [a \in DOMAIN artifacts |->
                     IF NeedsFix(artifacts[a].struct) /\ Reached(a)
                     THEN [artifacts[a] EXCEPT !.struct = FixStruct(artifacts[a].struct)]
                     ELSE artifacts[a]]
             /\ skipped' = failing
             /\ stored' =
                  [stored EXCEPT !.artifacts =
                     {a \in DOMAIN artifacts :
                        NeedsFix(artifacts[a].struct) /\ Reached(a)}]
             /\ env_failed' = (env_failed \/ failing # {})
             /\ error' = IF failing = {} THEN error ELSE "_store_artifact"
             /\ pc' = IF failing = {} THEN "write_version" ELSE "failed"
    /\ UNCHANGED <<config, from_scratch, marker, projects, tags, sources, run,
                   resolved, alembic>>
    /\ Remember

\* lines 102-179; storing one artifact may raise, which is caught and logged
_fix_datasets_large_previews ==
    /\ pc = "previews"
    /\ pre' = Store
    /\ trace' = Append(trace, "_fix_datasets_large_previews")
    /\ \E failing \in SUBSET {a \in DOMAIN artifacts : NeedsFix(artifacts[a].struct)} :
         /\ artifacts' =
              [a \in DOMAIN artifacts |->
                 IF NeedsFix(artifacts[a].struct) /\ a \notin failing
                 THEN [artifacts[a] EXCEPT !.struct = FixStruct(artifacts[a].struct)]
                 ELSE artifacts[a]]
         /\ skipped' = failing
         /\ stored' =
              [stored EXCEPT !.artifacts =
                 {a \in DOMAIN artifacts :
                    NeedsFix(artifacts[a].struct) /\ a \notin failing}]
         /\ env_failed' = (env_failed \/ failing # {})
    /\ pc' = "write_version"
    /\ UNCHANGED <<config, from_scratch, marker, projects, tags, sources, run,
                   error, resolved, alembic>>
    /\ Remember

\* Mutant: the marker is advanced only when no artifact was skipped.
WriteVersionUnlessSkipped ==
    /\ pc = "write_version"
    /\ marker' = IF skipped = {} THEN create_data_version(latest_data_version)
                  ELSE marker
    /\ trace' = Append(trace, "create_data_version")
    /\ pc' = "done"
    /\ UNCHANGED <<config, from_scratch, projects, artifacts, tags, sources, run,
                   error, resolved, alembic, pre, skipped, env_failed,
                   stored>>
    /\ Remember

\* line 92
write_data_version ==
    /\ pc = "write_version"
    /\ marker' = create_data_version(latest_data_version)
    /\ trace' = Append(trace, "create_data_version")
    /\ pc' = "done"
    /\ UNCHANGED <<config, from_scratch, projects, artifacts, tags, sources, run,
                   error, resolved, alembic, pre, skipped, env_failed,
                   stored>>
    /\ Remember

\* init_data is invoked again, on the store the last invocation left
init_data ==
    /\ pc \in Ended
    /\ run < MaxRuns
    /\ run' = run + 1
    /\ pc' = "schema"
    /\ from_scratch' \in BOOLEAN
    /\ trace' = <<>>
    /\ error' = NoError
    /\ resolved' = NoResolution
    /\ alembic' = NoAlembic
    /\ skipped' = {}
    /\ stored' = NothingStored
    /\ UNCHANGED <<config, marker, projects, artifacts, tags, sources, pre,
                   env_failed, first>>

Next ==
    \/ _perform_schema_migrations
    \/ _perform_database_migration
    \/ init_db
    \/ _add_default_marketplace_source_if_needed
    \/ _add_data_version
    \/ _perform_data_migrations
    \/ _enrich_project_state
    \/ _fix_artifact_tags_duplications
    \/ _fix_datasets_large_previews
    \/ write_data_version
    \/ init_data

Spec == Init /\ [][Next]_vars

(***************************************************************************)
(* The repair passes on their own: the orchestrator stands before one pass *)
(* of a stale store (marker "0", every switch enabled), and the part of    *)
(* the store the pass works on ranges over a larger set.                   *)
(***************************************************************************)
StagesBefore ==
    <<"_is_latest_data_version", "init_alembic", "transfer", "init_db",
      "_add_default_marketplace_source_if_needed", "_add_data_version",
      "_perform_data_migrations">>

AtPass(p, entered) ==
    /\ config = AllEnabled
    /\ from_scratch = FALSE
    /\ marker = str(0)
    /\ sources = <<DefaultSource>>
    /\ pc = p
    /\ run = 1
    /\ trace = StagesBefore \o entered
    /\ error = NoError
    /\ resolved = Resolution(marker, projects, FALSE, FALSE)
    /\ alembic = [called |-> TRUE, data_version_is_latest |-> FALSE,
                  use_backups |-> TRUE]
    /\ skipped = {}
    /\ env_failed = FALSE
    /\ stored = NothingStored
    /\ pre = Store
    /\ first = Outcome

InitEnrich ==
    /\ projects \in AllProjects
    /\ artifacts = NoArtifacts
    /\ tags = {}
    /\ AtPass("enrich", <<>>)

NextEnrich == _enrich_project_state

SpecEnrich == InitEnrich /\ [][NextEnrich]_vars

\* Three artifacts over two projects and two keys, tagged "latest" in every
\* combination, with a second tag name, once or twice, or an orphan tag
\* besides.
UpdatedTimes == {NoTime} \cup (MinTime..MaxTime)
TagArtifacts ==
    {(1 :> Artifact("p1", "k1", u[1], PlainStruct)
      @@ 2 :> Artifact(pk[1][1], pk[1][2], u[2], PlainStruct)
      @@ 3 :> Artifact(pk[2][1], pk[2][2], u[3], PlainStruct)) :
        u \in [1..3 -> UpdatedTimes],
        pk \in [1..2 -> {"p1", "p2"} \X {"k1", "k2"}]}
TagSets ==
    {{Tag("latest", a) : a \in S} \cup extra :
        S \in SUBSET {1, 2, 3},
        extra \in {{}, {Tag("v1", 1)}, {Tag("v1", 1), Tag("v1", 2)},
                   {Tag("latest", OrphanId)}}}

InitTags ==
    /\ projects = NoProjects
    /\ artifacts \in TagArtifacts
    /\ tags \in TagSets
    /\ AtPass("dedup", <<"_enrich_project_state">>)

NextTags == _fix_artifact_tags_duplications

SpecTags == InitTags /\ [][NextTags]_vars

\* One artifact whose payload ranges over headers of up to
\* max_preview_columns + MaxExtra columns, with preview rows as long as the
\* header, shorter, or longer, next to a wide dataset.
Columns == {"a", "b", "c"}
Headers == UNION {[1..n -> Columns] : n \in 0..(max_preview_columns + MaxExtra)}
FullRow(header) == [i \in 1..Len(header) |-> i]
WideRow == [i \in 1..(max_preview_columns + 1) |-> i]
Structs ==
    UNION {
      [kind : {DatasetKind, "model"},
       header : {h},
       preview : {<<>>, <<FullRow(h)>>, <<FullRow(h), <<1>>>>, <<WideRow>>},
       stats : SUBSET Columns,
       fields : {<<>>, h} \cup {<<c>> : c \in Columns}]
      : h \in Headers}

InitPreviews ==
    /\ projects = NoProjects
    /\ \E s \in Structs :
         artifacts = (1 :> Artifact("p1", "k1", MinTime, s)
                      @@ 2 :> Artifact("p1", "k2", MinTime, WideStruct))
    /\ tags = {Tag("latest", 1), Tag("latest", 2)}
    /\ AtPass("previews", <<"_enrich_project_state",
                            "_fix_artifact_tags_duplications">>)

NextPreviews == _fix_datasets_large_previews

SpecPreviews == InitPreviews /\ [][NextPreviews]_vars

(***************************************************************************)
(* Properties                                                              *)
(***************************************************************************)
Last(s) == s[Len(s)]
Entered(f) == f \in Range(trace)

\* C1: idempotence of the whole run.  Once the first invocation of init_data
\* has completed, no later invocation changes the store (marker, projects,
\* artifacts, tags, sources) at any point; and when the first invocation
\* raised without a failure of the store, the next invocation ends in the
\* same store.
C1_Idempotent ==
    (run >= 2 /\ (first.pc = "done" \/ (pc \in Ended /\ ~env_failed)))
        => Store = first.store

\* A second run has completed on a store the first run repaired and seeded.
C1_Witness ==
    /\ run = 2
    /\ pc = "done"
    /\ first.pc = "done"
    /\ "_fix_datasets_large_previews" \in Range(first.trace)
    /\ pre.artifacts # artifacts
    /\ first.store.marker = str(latest_data_version)
    /\ first.store.sources = <<DefaultSource>>

\* C2: version resolution is the fixed-priority function of the marker state
\* and the project count: a readable marker resolves to its value; a missing
\* table or row resolves to the latest version with no project and to the
\* pre-tracking constant with at least one; and with no project the answer
\* is the latest version whatever the reason of the failed read was.
C2_Resolution ==
    resolved.read # "none" =>
        /\ resolved.read = "value" =>
              /\ ~resolved.out.raised
              /\ str(resolved.out.version) = resolved.text
        /\ (resolved.read \in {"no such table", "not_found"}
              /\ resolved.n_projects = 0) =>
              resolved.out = Returned(latest_data_version)
        /\ (resolved.read \in {"no such table", "not_found"}
              /\ resolved.n_projects >= 1) =>
              resolved.out = Returned(data_version_prior_to_table_addition)
        /\ (resolved.read # "value" /\ resolved.n_projects = 0) =>
              resolved.out = Returned(latest_data_version)

\* The marker table is missing in a store that holds a project.
C2_Witness ==
    /\ resolved.read = "no such table"
    /\ resolved.n_projects >= 1
    /\ ~resolved.list_raised
    /\ resolved.out = Returned(data_version_prior_to_table_addition)

\* C3 as stated: an operational failure of the marker read that is neither
\* "table missing" nor "row missing" is always propagated.
C3_AlwaysPropagated ==
    resolved.read = "operational" =>
        /\ resolved.out.raised
        /\ resolved.out.exc = "operational"

\* C3 as amended: such a failure is propagated, unchanged, exactly when the
\* project listing returns at least one project; when the listing raises an
\* operational failure or returns no project the resolver returns the latest
\* version instead.
C3_PropagatedWithProjects ==
    resolved.read = "operational" =>
        /\ resolved.out.raised <=> (~resolved.list_raised /\ resolved.n_projects >= 1)
        /\ resolved.out.raised =>
              /\ resolved.out.exc = "operational"
              /\ pc = "failed"
              /\ error = "operational"
        /\ ~resolved.out.raised => resolved.out = Returned(latest_data_version)

\* The read failed operationally in a store with a project, and the run ended
\* with that failure.
C3_Witness ==
    /\ resolved.read = "operational"
    /\ resolved.n_projects >= 1
    /\ resolved.out.raised
    /\ pc = "failed"

\* The (project, key, tag name) group of a tag row, and the rows of a group
GroupOf(arts, t) == <<arts[t.obj_id].project, arts[t.obj_id].key, t.name>>
GroupTags(arts, rows, g) ==
    {t \in rows : t.obj_id \in DOMAIN arts /\ GroupOf(arts, t) = g}
Groups(arts, rows) ==
    {GroupOf(arts, t) : t \in {r \in rows : r.obj_id \in DOMAIN arts}}

\* C4: tag dedup convergence.  When _fix_artifact_tags_duplications has
\* completed, every (project, key, tag name) group that held two or more tag
\* rows before the pass holds exactly one, and that row references an
\* artifact whose `updated` is the maximum of the group.
C4_Convergence ==
    pc = "previews" =>
        \A g \in Groups(pre.artifacts, pre.tags) :
            LET before == GroupTags(pre.artifacts, pre.tags, g)
                after == GroupTags(artifacts, tags, g)
            IN  Cardinality(before) >= 2 =>
                    \E w \in before :
                        /\ after = {w}
                        /\ \A t \in before :
                              artifacts[w.obj_id].updated >= artifacts[t.obj_id].updated

\* The column names beyond the first max_preview_columns entries of a header
Beyond(header) == {header[i] : i \in (max_preview_columns + 1)..Len(header)}
Datasets == {a \in DOMAIN artifacts : artifacts[a].struct.kind = DatasetKind}
NoColumnBeyond(a) ==
    LET now == artifacts[a].struct
        gone == Beyond(pre.artifacts[a].struct.header)
    IN  /\ now.stats \cap gone = {}
        /\ Range(now.fields) \cap gone = {}
RowsWithin(a) ==
    \A i \in DOMAIN artifacts[a].struct.preview :
        Len(artifacts[a].struct.preview[i]) <= max_preview_columns

\* C5 as stated: after _fix_datasets_large_previews every dataset artifact
\* has a header of at most max_preview_columns entries, preview rows of at
\* most that many entries, and no stats key or schema field naming a column
\* that lay beyond the first max_preview_columns entries of its old header.
C5_Truncated ==
    pc = "write_version" =>
        \A a \in Datasets :
            /\ Len(artifacts[a].struct.header) <= max_preview_columns
            /\ RowsWithin(a)
            /\ NoColumnBeyond(a)

\* C5 as amended: that holds of every dataset artifact whose repair did not
\* raise, the bound on the preview rows only of the artifacts whose header
\* was longer than max_preview_columns (the others are not rewritten).
C5_TruncatedUnlessSkipped ==
    pc = "write_version" =>
        \A a \in Datasets \ skipped :
            /\ Len(artifacts[a].struct.header) <= max_preview_columns
            /\ NoColumnBeyond(a)
            /\ Len(pre.artifacts[a].struct.header) > max_preview_columns
                  => RowsWithin(a)

\* A wide dataset with statistics of a removed column was rewritten while the
\* repair of the other artifact raised.
C5_Witness ==
    /\ pc = "write_version"
    /\ skipped = {2}
    /\ Len(pre.artifacts[1].struct.header) > max_preview_columns
    /\ pre.artifacts[1].struct.stats \cap Beyond(pre.artifacts[1].struct.header) # {}
    /\ pre.artifacts[1].struct.preview # <<>>
    /\ artifacts[1].struct.kind = DatasetKind
    /\ Len(artifacts[1].struct.header) = max_preview_columns

\* C6: project enrichment totality.  When _enrich_project_state has
\* completed, every project has both fields set: an unset desired_state is
\* the online value, an unset state is the project's desired_state, and a
\* field that was set keeps its value.
C6_Enriched ==
    pc = "dedup" =>
        /\ DOMAIN projects = DOMAIN pre.projects
        /\ \A n \in DOMAIN projects :
              LET was == pre.projects[n]
                  now == projects[n]
              IN  /\ now.desired_state # NullState
                  /\ now.state # NullState
                  /\ now.desired_state =
                        IF was.desired_state = NullState THEN online
                        ELSE was.desired_state
                  /\ now.state =
                        IF was.state = NullState THEN now.desired_state
                        ELSE was.state

\* A project with a desired state and no state took its desired state, next
\* to a project that had neither.
C6_Witness ==
    /\ pc = "dedup"
    /\ DOMAIN projects = {"p1", "p2"}
    /\ pre.projects["p1"] = [desired_state |-> "archived", state |-> NullState]
    /\ projects["p1"].state = "archived"
    /\ pre.projects["p2"] = [desired_state |-> NullState, state |-> NullState]
    /\ projects["p2"] = [desired_state |-> online, state |-> online]

\* The place of a function in an order of stages (0: not in the order)
Rank(order, f) ==
    IF \E i \in 1..Len(order) : f \in order[i]
    THEN CHOOSE i \in 1..Len(order) : f \in order[i]
    ELSE 0
Ordered(order) ==
    \A i, j \in 1..Len(trace) :
        (i < j /\ Rank(order, trace[i]) > 0 /\ Rank(order, trace[j]) > 0)
            => Rank(order, trace[i]) < Rank(order, trace[j])

\* The order the claim gives: schema migration, legacy transfer, version
\* resolution, repair passes, marker write, default-resource seeding.
StatedOrder ==
    << {"init_alembic"},
       {"transfer"},
       {"_is_latest_data_version", "_resolve_current_data_version"},
       {"_enrich_project_state"},
       {"_fix_artifact_tags_duplications"},
       {"_fix_datasets_large_previews"},
       {"create_data_version"},
       {"_add_default_marketplace_source_if_needed"} >>

\* The order of the code: the version is resolved for the schema migration
\* before the schema is applied, and the default source and the marker are
\* seeded before the repair passes and the marker write.
CodeOrder ==
    << {"_is_latest_data_version"},
       {"init_alembic"},
       {"transfer"},
       {"init_db"},
       {"_add_default_marketplace_source_if_needed"},
       {"_add_data_version"},
       {"_resolve_current_data_version"},
       {"_perform_data_migrations"},
       {"_enrich_project_state"},
       {"_fix_artifact_tags_duplications"},
       {"_fix_datasets_large_previews"},
       {"create_data_version"} >>

\* C7 as stated: in every run the stages happen in the order schema
\* migration, legacy transfer, version resolution, repair passes, marker
\* write, default-resource seeding.
C7_StatedOrder == Ordered(StatedOrder)

\* C7 as amended: in every run the stages happen in the order version
\* resolution, schema migration, legacy transfer, table creation, seeding of
\* the default source, seeding of the marker, repair passes, marker write;
\* every function entered is one of these.
C7_CodeOrder ==
    /\ Ordered(CodeOrder)
    /\ \A i \in 1..Len(trace) : Rank(CodeOrder, trace[i]) > 0

\* A run went through every stage.
C7_Witness ==
    /\ pc = "done"
    /\ Len(trace) = 11
    /\ Entered("transfer")
    /\ Entered("_fix_datasets_large_previews")
    /\ Entered("create_data_version")

\* The state right after _perform_data_migrations took its decision, in a
\* run with data migrations enabled; marker still holds the version it read.
Decided ==
    /\ config.data_migrations_mode = "enabled"
    /\ trace # <<>>
    /\ Last(trace) = "_perform_data_migrations"
    /\ pc # "failed"

\* C8 as stated: with data migrations enabled the repair passes run if and
\* only if the current data version differs from the latest version.
C8_RepairIffStale ==
    Decided => (pc = "enrich" <=> int(marker) # latest_data_version)

\* C8 as amended: they run if and only if the current data version is lower
\* than 1; for the latest version nothing is done, and for any other version
\* only the marker is rewritten.
C8_RepairIffBelowOne ==
    Decided =>
        /\ pc = "enrich" <=> int(marker) < 1
        /\ pc = "done" <=> int(marker) = latest_data_version
        /\ pc = "write_version" <=>
              (int(marker) # latest_data_version /\ int(marker) >= 1)

\* A version higher than the latest: the passes are skipped and the marker
\* is about to be rewritten.
C8_Witness ==
    /\ Decided
    /\ int(marker) > latest_data_version
    /\ pc = "write_version"

\* The first run ended with an exception of the enrichment or the dedup pass.
FirstFailedInRepair ==
    /\ first.pc = "failed"
    /\ Last(first.trace) \in {"_enrich_project_state", "_fix_artifact_tags_duplications"}

\* C9: when the enrichment pass or the tag-dedup pass raises, the run ends
\* with that error, no later repair pass is entered, the marker keeps the
\* value it had when the repair started and is not the latest version; and
\* the next run, when it reaches _perform_data_migrations, selects the repair
\* passes again.
C9_FailFast ==
    /\ (pc = "failed" /\ trace # <<>>
          /\ Last(trace) \in {"_enrich_project_state", "_fix_artifact_tags_duplications"})
        => /\ error # NoError
           /\ marker = pre.marker
           /\ marker # str(latest_data_version)
           /\ ~Entered("_fix_datasets_large_previews")
           /\ ~Entered("create_data_version")
    /\ (run = 2 /\ FirstFailedInRepair /\ trace # <<>>
          /\ Last(trace) = "_perform_data_migrations")
        => pc = "enrich"

\* After a run in which the dedup pass raised, the next run has entered the
\* enrichment pass again.
C9_Witness ==
    /\ run = 2
    /\ FirstFailedInRepair
    /\ Last(first.trace) = "_fix_artifact_tags_duplications"
    /\ pc = "dedup"

\* C10 as stated: each of the three switches gates its own stage; the one
\* switch _perform_schema_migrations reads is database_backup_mode.
C10_ThreeSwitches ==
    /\ config.database_backup_mode = "disabled" => ~Entered("init_alembic")
    /\ config.database_migration_mode = "disabled" => ~Entered("transfer")
    /\ config.data_migrations_mode = "disabled" =>
          /\ ~Entered("_enrich_project_state")
          /\ ~Entered("_fix_artifact_tags_duplications")
          /\ ~Entered("_fix_datasets_large_previews")
          /\ ~Entered("create_data_version")

\* C10 as amended: two switches gate their stage.  With the legacy transfer
\* disabled (or from_scratch set) transfer() is not invoked; with data
\* migrations disabled no repair pass runs, the marker is not rewritten and
\* the run ends without error.  The schema migration has no switch: it is
\* applied in every run that resolved a version, and database_backup_mode
\* only tells it whether to take a backup.
C10_TwoSwitches ==
    /\ (config.database_migration_mode = "disabled" \/ from_scratch)
          => ~Entered("transfer")
    /\ pc = "init_db" => error = NoError
    /\ config.data_migrations_mode = "disabled" =>
          /\ ~Entered("_enrich_project_state")
          /\ ~Entered("_fix_artifact_tags_duplications")
          /\ ~Entered("_fix_datasets_large_previews")
          /\ ~Entered("create_data_version")
          /\ Entered("_perform_data_migrations") => (pc = "done" /\ error = NoError)
    /\ Len(trace) >= 2 =>
          /\ trace[2] = "init_alembic"
          /\ alembic.called
          /\ alembic.use_backups <=> config.database_backup_mode = "enabled"

\* A run with every switch disabled has completed on a stale store: the
\* schema was applied, nothing was transferred, the marker is as it was.
C10_Witness ==
    /\ config.database_backup_mode = "disabled"
    /\ config.database_migration_mode = "disabled"
    /\ config.data_migrations_mode = "disabled"
    /\ ~from_scratch
    /\ pc = "done"
    /\ Entered("init_alembic")
    /\ marker = str(0)
    /\ \E n \in DOMAIN projects : projects[n].state = NullState

\* Tag rows whose artifact record is missing
OrphanTags(arts, rows) == {t \in rows : t.obj_id \notin DOMAIN arts}

\* C11: orphan tags are tolerated.  When tag rows without an artifact record
\* exist at the start of _fix_artifact_tags_duplications, the pass completes
\* without raising, and every group of the other tag rows that held two or
\* more rows is left with exactly one.
C11_OrphanTolerated ==
    (/\ Last(trace) = "_fix_artifact_tags_duplications"
     /\ pc # "dedup"
     /\ OrphanTags(pre.artifacts, pre.tags) # {})
    => /\ pc = "previews"
       /\ error = NoError
       /\ \A g \in Groups(pre.artifacts, pre.tags) :
              Cardinality(GroupTags(pre.artifacts, pre.tags, g)) >= 2
              => Cardinality(GroupTags(artifacts, tags, g)) = 1

\* C12: best effort per artifact in the preview pass.  When
\* _fix_datasets_large_previews has run, it has returned without raising
\* whatever artifacts failed; an artifact whose repair failed holds the
\* payload it held before the pass; and every other artifact that needed the
\* repair has been repaired, whether it comes before or after a failing one.
C12_BestEffort ==
    (Last(trace) = "_fix_datasets_large_previews" /\ pc # "previews")
    => /\ pc = "write_version"
       /\ error = NoError
       /\ \A a \in skipped : artifacts[a] = pre.artifacts[a]
       /\ \A a \in DOMAIN artifacts \ skipped :
              NeedsFix(pre.artifacts[a].struct)
              => /\ ~NeedsFix(artifacts[a].struct)
                 /\ artifacts[a].struct # pre.artifacts[a].struct

\* The first artifact failed and the second, a wide dataset, was repaired.
C12_Witness ==
    /\ pc = "write_version"
    /\ skipped = {1}
    /\ NeedsFix(artifacts[1].struct)
    /\ NeedsFix(pre.artifacts[2].struct)
    /\ ~NeedsFix(artifacts[2].struct)

\* C13: compute, then commit.  _fix_artifact_tags_duplications deletes tag
\* rows only after tags_to_delete has been worked out over every project,
\* key and tag name: when the pass has raised, the tag rows are exactly the
\* rows it found, also those of the groups worked out before the failing
\* one; when it has completed, the rows are the rows it found less the ones
\* marked, removed in the one commit that ends the pass.
C13_ComputeThenCommit ==
    /\ (Last(trace) = "_fix_artifact_tags_duplications" /\ pc = "failed")
       => tags = pre.tags
    /\ (Last(trace) = "_fix_artifact_tags_duplications" /\ pc = "previews")
       => tags \subseteq pre.tags
    /\ pc = "dedup" => tags = pre.tags

\* The pass raised in the group of "latest" although the group of "v1" had
\* a tag marked for deletion.
C13_Witness ==
    /\ pc = "failed"
    /\ error = "TypeError"
    /\ tags = pre.tags
    /\ {Tag("v1", 1), Tag("v1", 2)} \subseteq tags
    /\ artifacts[1].key = artifacts[2].key
    /\ artifacts[1].updated # NoTime
    /\ artifacts[2].updated # NoTime
    /\ artifacts[3].updated = NoTime
    /\ Tag("latest", 3) \in tags

DefaultRows == SelectSeq(sources, LAMBDA s : s.name = default_source_name)

\* C14: the default marketplace source row is a singleton, created only when
\* needed.  At any point of any number of runs there is at most one source
\* row with the default name; a row with that name that existed before is
\* the only row and is as it was; the row init_data adds exists only when the
\* configuration asks for it and no row with that name existed; and once
\* _add_default_marketplace_source_if_needed has run under a configuration
\* that asks for the row, a row with the default name exists.
C14_Singleton ==
    /\ Len(DefaultRows) <= 1
    /\ sources \in {<<>>, <<ExistingSource>>, <<DefaultSource>>}
    /\ sources = <<DefaultSource>> => config.default_source_create
    /\ (/\ config.default_source_create
        /\ \/ Entered("_add_default_marketplace_source_if_needed")
           \/ "_add_default_marketplace_source_if_needed" \in Range(first.trace))
       => Len(DefaultRows) = 1

\* A second run has passed the seeding step on a store whose default row the
\* first run added.
C14_Witness ==
    /\ run = 2
    /\ Entered("_add_default_marketplace_source_if_needed")
    /\ first.store.sources = <<DefaultSource>>
    /\ sources = <<DefaultSource>>

\* C15: tag dedup deletes only inside duplicated groups.  When
\* _fix_artifact_tags_duplications has completed, every tag row it deleted
\* belonged to a (project, key, tag name) group of two or more rows; a row
\* that was the only one of its group is still there, also when an artifact
\* of another project has the same key and a tag of the same name.
C15_OnlyDuplicatedGroups ==
    (Last(trace) = "_fix_artifact_tags_duplications" /\ pc = "previews")
    => \A t \in pre.tags \ tags :
           /\ t.obj_id \in DOMAIN pre.artifacts
           /\ Cardinality(GroupTags(pre.artifacts, pre.tags,
                                    GroupOf(pre.artifacts, t))) >= 2

\* The artifacts the preview pass of the first run skipped: the ones that
\* still needed the repair when that run had completed
FirstSkipped ==
    IF first.pc = "done" /\ "_fix_datasets_large_previews" \in Range(first.trace)
    THEN {a \in DOMAIN first.store.artifacts :
            NeedsFix(first.store.artifacts[a].struct)}
    ELSE {}

\* C16: partial progress of the preview pass is resumable.  When the preview
\* pass of one run skipped an artifact because its repair failed, and a later
\* run has completed without any failure, the artifact has been truncated.
C16_Resumed ==
    (run >= 2 /\ pc = "done" /\ error = NoError /\ skipped = {})
    => \A a \in FirstSkipped : ~NeedsFix(artifacts[a].struct)

\* C16 as the code has it: a run whose preview pass skipped an artifact
\* still completes and advances the marker to the latest version, so no later
\* run enters the preview pass and the skipped artifact keeps the payload it
\* had.
C16_NotResumed ==
    /\ (pc = "done" /\ Entered("_fix_datasets_large_previews"))
       => marker = str(latest_data_version)
    /\ (run >= 2 /\ FirstSkipped # {})
       => /\ ~Entered("_fix_datasets_large_previews")
          /\ \A a \in FirstSkipped : artifacts[a] = first.store.artifacts[a]

\* A later run has completed, without failure, on a store in which the first
\* run had skipped an artifact.
C16_Witness ==
    /\ run >= 2
    /\ pc = "done"
    /\ error = NoError
    /\ Entered("_perform_data_migrations")
    /\ FirstSkipped # {}
    /\ \E a \in FirstSkipped : NeedsFix(artifacts[a].struct)

\* The groups of two or more tag rows that the pass sees as they are: no tag
\* of another project has the key and the name of the group, and no tag row
\* lacks its artifact.
SelfContained(g) ==
    /\ OrphanTags(pre.artifacts, pre.tags) = {}
    /\ Cardinality(GroupTags(pre.artifacts, pre.tags, g)) >= 2
    /\ \A t \in pre.tags :
           (pre.artifacts[t.obj_id].key = g[2] /\ t.name = g[3])
           => pre.artifacts[t.obj_id].project = g[1]

\* The first of a set of artifact record ids in the artifact listing
FirstListed(ids) == CHOOSE i \in ids : \A j \in ids : i <= j

\* C17: deterministic tie-break by artifact listing order.  For a group of
\* two or more tag rows: when no artifact of the group has `updated` set, the
\* pass completes without error and the tag that remains is that of the
\* first artifact of the listing; when several artifacts of the group share
\* the latest `updated`, the tag that remains is that of the one listed
\* first, in whatever order the tag rows were read.
C17_ListingOrderTieBreak ==
    Last(trace) = "_fix_artifact_tags_duplications" /\ pc # "dedup"
    => \A g \in Groups(pre.artifacts, pre.tags) :
           SelfContained(g)
           => LET before == GroupTags(pre.artifacts, pre.tags, g)
                  ids == {t.obj_id : t \in before}
                  times == {pre.artifacts[i].updated : i \in ids}
                  latest == {i \in ids :
                               \A j \in ids : pre.artifacts[j].updated
                                              <= pre.artifacts[i].updated}
                  after == GroupTags(artifacts, tags, g)
              IN  /\ times = {NoTime}
                     => /\ pc = "previews"
                        /\ error = NoError
                        /\ after = {t \in before : t.obj_id = FirstListed(ids)}
                  /\ (NoTime \notin times /\ pc = "previews")
                     => after = {t \in before : t.obj_id = FirstListed(latest)}

\* The projects with a field unset when the last repair pass started
Unset ==
    {n \in DOMAIN pre.projects :
        \/ pre.projects[n].desired_state = NullState
        \/ pre.projects[n].state = NullState}

\* C18: change detection in enrichment.  When _enrich_project_state has
\* completed, the projects it wrote with store_project are exactly those of
\* which desired_state or state was unset; when store_project raised, the
\* projects written before are among those; and an execution of the pass on
\* a store that an earlier execution has enriched writes no project.
C18_ChangeDetection ==
    /\ pc = "dedup" => stored.projects = Unset
    /\ (pc = "failed" /\ error = "store_project") => stored.projects \subseteq Unset
    /\ (/\ run >= 2
        /\ pc = "dedup"
        /\ "_fix_artifact_tags_duplications" \in Range(first.trace))
       => stored.projects = {}

\* The pass has run a second time, on projects the first run enriched.
C18_Witness ==
    /\ run = 2
    /\ pc = "dedup"
    /\ "_fix_artifact_tags_duplications" \in Range(first.trace)
    /\ DOMAIN projects # {}
    /\ stored.projects = {}

RepairPasses ==
    {"_enrich_project_state", "_fix_artifact_tags_duplications",
     "_fix_datasets_large_previews"}

\* The run found no marker row when it came to seed the version, in a store
\* with at least one project
LegacyStart == Entered("_resolve_current_data_version") /\ resolved.n_projects >= 1

Repaired ==
    /\ \A n \in DOMAIN projects : projects[n].state # NullState
    /\ \A g \in Groups(artifacts, tags) :
           Cardinality(GroupTags(artifacts, tags, g)) <= 1

\* C19: a legacy store is repaired before it is marked current.  When a run
\* that started on a store with at least one project and no version marker
\* has completed with data migrations enabled and the marker reads the
\* latest version, the three repair passes have run, no project has a null
\* state and no (project, key, tag name) group has more than one tag row.
C19_LegacyRepaired ==
    (/\ pc = "done"
     /\ LegacyStart
     /\ config.data_migrations_mode = "enabled"
     /\ marker = str(latest_data_version))
    => /\ RepairPasses \subseteq Range(trace)
       /\ Repaired

\* C19 as the code has it: a store with at least one project and no version
\* marker is marked without being repaired.  The version seeded for it is
\* the pre-tracking version, which is the latest version, so the run goes
\* on to its end with none of the repair passes entered, and projects,
\* artifacts and tags are as the run found them.
C19_LegacyMarkedUnrepaired ==
    (LegacyStart /\ pc # "failed")
    => /\ marker = str(latest_data_version)
       /\ pc \in {"data_migrations", "done"}
       /\ RepairPasses \cap Range(trace) = {}
       /\ projects = pre.projects
       /\ artifacts = pre.artifacts
       /\ tags = pre.tags

\* A run on such a store has completed: the marker reads the latest version
\* while a project has no state and a tag is duplicated.
C19_Witness ==
    /\ pc = "done"
    /\ LegacyStart
    /\ resolved.read = "not_found"
    /\ config.data_migrations_mode = "enabled"
    /\ marker = str(latest_data_version)
    /\ ~Repaired
    /\ \E n \in DOMAIN projects : projects[n].state = NullState
    /\ \E g \in Groups(artifacts, tags) :
           Cardinality(GroupTags(artifacts, tags, g)) >= 2

\* The artifacts the preview pass rewrote, and the ones it had no cause to
Rewritten == {a \in DOMAIN artifacts : NeedsFix(pre.artifacts[a].struct)} \ skipped
LeftAlone == {a \in DOMAIN artifacts : ~NeedsFix(pre.artifacts[a].struct)}

Untouched == \A a \in LeftAlone : artifacts[a] = pre.artifacts[a] /\ a \notin stored.artifacts

\* C20: the preview pass removes nothing but the excess columns.  When
\* _fix_datasets_large_previews has run, every artifact it rewrote still has
\* each stats entry and each schema field whose column name is among the
\* first max_preview_columns entries of its old header, also when that name
\* occurs again further on in the header; and an artifact that is no dataset
\* or whose header is within max_preview_columns is as it was and was not
\* stored.
C20_KeepsFirstColumns ==
    pc = "write_version" =>
        /\ \A a \in Rewritten :
               LET old == pre.artifacts[a].struct
                   now == artifacts[a].struct
                   first_columns == Range(Take(old.header, max_preview_columns))
                   IsFirst(name) == name \in first_columns
               IN  /\ old.stats \cap first_columns \subseteq now.stats
                   /\ SelectSeq(old.fields, IsFirst) = SelectSeq(now.fields, IsFirst)
        /\ Untouched

\* C20 as the code has it: stats entries and schema fields are removed by
\* name.  An artifact the pass rewrote has, of its old stats entries and
\* schema fields, exactly those whose column name is not the name of a header
\* entry beyond the first max_preview_columns; an entry named like one of
\* the first entries is removed when the name occurs again further on.  An
\* artifact that is no dataset or whose header is within max_preview_columns
\* is as it was and was not stored.
C20_KeepsAllButNamedBeyond ==
    pc = "write_version" =>
        /\ \A a \in Rewritten :
               LET old == pre.artifacts[a].struct
                   now == artifacts[a].struct
                   NotBeyond(name) == name \notin Beyond(old.header)
               IN  /\ now.stats = old.stats \ Beyond(old.header)
                   /\ now.fields = SelectSeq(old.fields, NotBeyond)
                   /\ a \in stored.artifacts
        /\ Untouched

\* A rewritten dataset whose first header entry occurs again beyond the
\* first max_preview_columns entries lost the stats entry of that name and
\* kept the entry of a name that is not in the header.
C20_Witness ==
    /\ pc = "write_version"
    /\ 1 \in Rewritten
    /\ LET old == pre.artifacts[1].struct
           now == artifacts[1].struct
       IN  /\ old.header[1] \in Beyond(old.header)
           /\ old.header[1] \in old.stats \ now.stats
           /\ \E c \in now.stats : c \notin Range(old.header)
           /\ old.fields = old.header

====
